---- MODULE Spec2Model ----
(***************************************************************************)
(* Cart / auth reconciliation of the storefront: the auth provider's       *)
(* hydration flag, the cart store (initializeCart, addItem, syncCart,      *)
(* verifySyncStatus), the cart provider (guest -> user migration with      *)
(* mergeCartItems, the realtime handler) and the stores they talk to.      *)
(* Every handler is one action per run-to-completion segment: from its     *)
(* call, or from the return of an await, up to the next await.             *)
(***************************************************************************)
EXTENDS Integers, Sequences, FiniteSets, TLC

(***************************************************************************)
(* Bounds of the model.                                                    *)
(***************************************************************************)
MergeMaxLen == 2

(***************************************************************************)
(* Data: cart line items.                                                  *)
(***************************************************************************)
None == "none"

ProductIds == {"p1", "p2"}
VariantIds == {"v1", "v2"}

\* the (productId, variantId) pairs the model draws line items from
Keys == {<<"p1", "v1">>, <<"p1", "v2">>, <<"p2", "v2">>}

Quantities == {1, 2, 3}

\* unit price of a product variant (fixed catalogue data)
PriceOf(k) == IF k[1] = "p1" THEN 5 ELSE 7

\* a CartItem as the stores hold it: totalPrice = pricePerUnit * quantity
CartItem(k, q) ==
  [productId |-> k[1], variantId |-> k[2], quantity |-> q,
   pricePerUnit |-> PriceOf(k), totalPrice |-> PriceOf(k) * q]

KeyOf(item) == <<item.productId, item.variantId>>

SeqsUpTo(S, n) == UNION {[1..m -> S] : m \in 0..n}

RECURSIVE SumQty(_, _, _)
SumQty(cart, k, i) ==
  IF i > Len(cart) THEN 0
  ELSE (IF KeyOf(cart[i]) = k THEN cart[i].quantity ELSE 0) + SumQty(cart, k, i + 1)

\* total quantity a cart holds of key k, over all its lines
QtyOf(cart, k) == SumQty(cart, k, 1)

LinesOf(cart, k) == Cardinality({i \in 1..Len(cart) : KeyOf(cart[i]) = k})

(***************************************************************************)
(* mergeCartItems(guestItems, userItems)                                   *)
(***************************************************************************)
\* merged.findIndex(item => item.productId === g.productId &&
\*                          item.variantId === g.variantId); 0 for JS's -1
findIndex(merged, g) ==
  LET hits == {i \in 1..Len(merged) :
                 merged[i].productId = g.productId /\ merged[i].variantId = g.variantId}
  IN IF hits = {} THEN 0 ELSE CHOOSE i \in hits : \A j \in hits : i <= j

\* a merge that keeps the guest quantity instead of adding it
MergeStepReplace(merged, g) ==
  LET idx == findIndex(merged, g)
  IN IF idx > 0
       THEN [merged EXCEPT ![idx].quantity = g.quantity,
                           ![idx].totalPrice = merged[idx].pricePerUnit * g.quantity]
       ELSE Append(merged, g)

\* a merge that adds the quantity and leaves totalPrice as it was
MergeStepStalePrice(merged, g) ==
  LET idx == findIndex(merged, g)
  IN IF idx > 0
       THEN [merged EXCEPT ![idx].quantity = merged[idx].quantity + g.quantity]
       ELSE Append(merged, g)

\* a merge that pushes every guest line
MergeStepAppends(merged, g) == Append(merged, g)

\* one iteration of the for-loop over guestItems
MergeStep(merged, g) ==
  LET idx == findIndex(merged, g)
  IN IF idx > 0
       THEN [merged EXCEPT ![idx].quantity = merged[idx].quantity + g.quantity,
                           ![idx].totalPrice =
                              merged[idx].pricePerUnit * (merged[idx].quantity + g.quantity)]
       ELSE Append(merged, g)

RECURSIVE MergeLoop(_, _, _)
MergeLoop(merged, guestItems, i) ==
  IF i > Len(guestItems) THEN merged
  ELSE MergeLoop(MergeStep(merged, guestItems[i]), guestItems, i + 1)

mergeCartItems(guestItems, userItems) == MergeLoop(userItems, guestItems, 1)

(***************************************************************************)
(* Bounds of the environment: how many times each outside event happens.   *)
(***************************************************************************)
MaxEvents == 2
SwitchEvents == 3
MaxAdds == 2
MaxAuthEvents == 2
MaxRemounts == 1
MaxOtherWrites == 1
MaxFailures == 1

Users == {"u1", "u2"}

KA == <<"p1", "v1">>
KB == <<"p2", "v2">>

\* what the user puts in the cart from a product page: a key and a quantity
AddChoices == {<<KA, 2>>}

\* the builds of the plan that are modelled: Steps 3.1 and 4.1 as written, and
\* the same with Step 3.2's Option A and Step 5.1's syncCart in their place
Builds == {<<"ref", "debounced">>, <<"session", "timestamped">>}

(***************************************************************************)
(* State.                                                                  *)
(***************************************************************************)
VARIABLES
  \* Session Source and AuthProvider
  session,        \* the Session Source's current user, or None
  user,           \* AuthProvider: useState user (its id), or None
  loading,        \* AuthProvider: useState loading
  isHydrated,     \* AuthProvider: useState isHydrated
  authPc,         \* initializeSession: "getSession", "loadProfile", "done", "failed"
  authUid,        \* the session.user.id initializeSession is loading the profile of
  \* cart store (zustand singleton)
  items, isInitialized, isLoading, lastSyncedAt,
  \* CartProvider
  prevUserIdRef, hasMigratedRef,
  migrationMark,  \* sessionStorage keys cart-migrated-<userId> that are 'true'
  effectPending,  \* a dependency of the initialization effect changed
  invocations,    \* initializeCartWithAuth calls suspended in the migration's awaits
  \* stores
  guestStore,     \* Local Guest Store
  remote,         \* Remote Cart Store: user -> cart
  clock,          \* wall clock, in the unit of updated_at and Date.now()
  \* asynchronous operations in flight
  initLoads,      \* loadCartFromSupabase calls of initializeCart
  debSupabase,    \* debouncedSyncToSupabase: <<>> or <<lastArgs>> while its timer runs
  debLocal,       \* debouncedSyncToLocalStorage: <<>> or <<lastArgs>>
  saves,          \* saveCartToSupabase calls issued by syncCart
  verifies,       \* loadCartFromSupabase calls of verifySyncStatus
  notifications,  \* postgres_changes events not yet delivered
  handlers,       \* realtime handlers suspended in their loadCartFromSupabase
  \* which of the plan's alternatives is built
  markMode,       \* "ref": hasMigratedRef (Step 3.1); "session": Option A (Step 3.2)
  syncMode,       \* "debounced": syncCart of Step 4.1; "timestamped": of Step 5.1
  \* what the page load found
  session0,       \* the Session Source's user at page load
  guestStore0,    \* the Local Guest Store at page load
  eventBudget,    \* how many outside events the run takes
  \* history
  addHist,        \* the addItem calls made so far
  authEvents, remounts, otherWrites, failures,
  unhandled,      \* the operations whose rejected promise nothing caught
  migRuns,        \* user -> number of migrations that ran load, merge and save
  debHist,        \* calls and writes of the debounced functions
  \* a call of mergeCartItems: its inputs and result
  mPc, mGuest, mUser, mResult,
  \* HeroCarousel
  bannersLength,       \* banners.length
  currentSlide, isAutoPlaying, isTransitioning,
  isTransitioningRef,  \* isTransitioningRef.current
  touchStartX, touchEndX,
  releaseTimers,       \* setTimeout callbacks of TRANSITION_DURATION not yet run
  navCalls,            \* calls of nextSlide, prevSlide and goToSlide so far
  blockedCalls,        \* those that returned because the transition lock was held
  slideChanges,        \* setCurrentSlide calls since the lock was last released
  \* FilterContent of the product gallery
  searchParams,        \* useSearchParams(): filter key -> its values in the URL
  optimisticFilters,   \* useState: filter key -> <<>> or <<values>>
  pendingNavs,         \* router.replace targets not yet committed
  clicks               \* the checkbox changes made so far

authVars == <<session, user, loading, isHydrated, authPc, authUid>>
storeVars == <<items, isInitialized, isLoading, lastSyncedAt>>
provVars == <<prevUserIdRef, hasMigratedRef, migrationMark, effectPending, invocations>>
backVars == <<guestStore, remote, clock>>
asyncVars == <<initLoads, debSupabase, debLocal, saves, verifies, notifications, handlers>>
fixedVars == <<markMode, syncMode, session0, guestStore0, eventBudget>>
histVars == <<addHist, authEvents, remounts, otherWrites, failures, unhandled, migRuns,
              debHist>>
mergeVars == <<mPc, mGuest, mUser, mResult>>

machineVars == <<authVars, storeVars, provVars, backVars, asyncVars, fixedVars, histVars>>

carouselVars == <<bannersLength, currentSlide, isAutoPlaying, isTransitioning,
                  isTransitioningRef, touchStartX, touchEndX, releaseTimers, navCalls,
                  blockedCalls, slideChanges>>
filterVars == <<searchParams, optimisticFilters, pendingNavs, clicks>>

uiVars == <<carouselVars, filterVars>>

vars == <<machineVars, mergeVars, uiVars>>

\* the outside events so far
Events == Len(addHist) + authEvents + remounts + otherWrites + failures

\* a promise is rejected and no catch block or handler takes the rejection:
\* the runtime reports it as unhandled, for the operation op
Escapes(op) == unhandled' = unhandled \cup {op}

RemoveAt(s, i) == SubSeq(s, 1, i - 1) \o SubSeq(s, i + 1, Len(s))

NoDebHist == [supBursts |-> 0, supWrites |-> 0, supLastCall |-> <<>>,
              locBursts |-> 0, locWrites |-> 0, locLastCall |-> <<>>]

\* the filter keys and values of the product gallery that the model draws from
FilterKeys == {"material", "size"}
FilterValues == {"x", "y"}

\* a page without the carousel: no banners, nothing pending
CarouselOff ==
  /\ bannersLength = 0 /\ currentSlide = 0 /\ isAutoPlaying = TRUE
  /\ isTransitioning = FALSE /\ isTransitioningRef = FALSE
  /\ touchStartX = 0 /\ touchEndX = 0
  /\ releaseTimers = 0 /\ navCalls = 0 /\ blockedCalls = 0 /\ slideChanges = 0

\* a page without the product filters
FiltersOff ==
  /\ searchParams = [k \in FilterKeys |-> <<>>]
  /\ optimisticFilters = [k \in FilterKeys |-> <<>>]
  /\ pendingNavs = <<>> /\ clicks = <<>>

\* the state after construction and mount: AuthProvider's effect has called
\* initializeSession, which is suspended in getSession()
MachineInit ==
  \* a page load as a guest, with or without a guest cart left in
  \* localStorage, or with the session of u1
  /\ \E p \in {<<None, <<>>>>, <<None, <<CartItem(KA, 1)>>>>, <<"u1", <<>>>>} :
        /\ session = p[1] /\ guestStore = p[2]
        /\ session0 = p[1] /\ guestStore0 = p[2]
  /\ user = None /\ loading = TRUE /\ isHydrated = FALSE
  /\ authPc = "getSession" /\ authUid = None
  /\ items = <<>> /\ isInitialized = FALSE /\ isLoading = FALSE /\ lastSyncedAt = 0
  /\ prevUserIdRef = None /\ hasMigratedRef = FALSE /\ migrationMark = {}
  /\ effectPending = FALSE /\ invocations = <<>>
  /\ remote = [u \in Users |-> IF u = "u1" THEN <<CartItem(KA, 1), CartItem(KB, 1)>>
                                           ELSE <<>>]
  /\ clock = 0
  /\ initLoads = <<>> /\ debSupabase = <<>> /\ debLocal = <<>> /\ saves = <<>>
  /\ verifies = <<>> /\ notifications = {} /\ handlers = <<>>
  /\ \E b \in Builds : markMode = b[1] /\ syncMode = b[2]
  /\ addHist = <<>> /\ authEvents = 0 /\ remounts = 0 /\ otherWrites = 0 /\ failures = 0
  /\ unhandled = {}
  /\ migRuns = [u \in Users |-> 0]
  /\ debHist = NoDebHist

Init ==
  /\ MachineInit
  /\ eventBudget = MaxEvents
  /\ CarouselOff /\ FiltersOff
  /\ mPc = "off" /\ mGuest = <<>> /\ mUser = <<>> /\ mResult = <<>>


(***************************************************************************)
(* AuthProvider.                                                           *)
(***************************************************************************)
\* initializeSession: `await supabase.auth.getSession()` returns
GetSessionReturn ==
  /\ authPc = "getSession"
  /\ IF session # None
       THEN \* if (session?.user) await loadUserProfile(session.user.id)
            /\ authPc' = "loadProfile"
            /\ authUid' = session
            /\ UNCHANGED <<loading, isHydrated, effectPending>>
       ELSE \* setLoading(false); setIsHydrated(true)
            /\ authPc' = "done"
            /\ loading' = FALSE
            /\ isHydrated' = TRUE
            /\ effectPending' = TRUE
            /\ UNCHANGED authUid
  /\ UNCHANGED <<session, user, storeVars, prevUserIdRef, hasMigratedRef, migrationMark,
                 invocations, backVars, asyncVars, fixedVars, histVars, mergeVars, uiVars>>

\* getSession() rejects: initializeSession has no try/catch, the rest never runs
GetSessionFail ==
  /\ authPc = "getSession"
  /\ failures < MaxFailures /\ Events < eventBudget
  /\ authPc' = "failed"
  /\ failures' = failures + 1
  /\ Escapes("initializeSession")
  /\ UNCHANGED <<session, user, loading, isHydrated, authUid, storeVars, provVars, backVars,
                 asyncVars, fixedVars, addHist, authEvents, remounts, otherWrites, migRuns,
                 debHist, mergeVars, uiVars>>

\* `await loadUserProfile(id)` returns: the profile is the user;
\* then setLoading(false); setIsHydrated(true)
LoadProfileReturn ==
  /\ authPc = "loadProfile"
  /\ user' = authUid
  /\ loading' = FALSE
  /\ isHydrated' = TRUE
  /\ authPc' = "done"
  /\ effectPending' = TRUE
  /\ UNCHANGED <<session, authUid, storeVars, prevUserIdRef, hasMigratedRef, migrationMark,
                 invocations, backVars, asyncVars, fixedVars, histVars, mergeVars, uiVars>>

LoadProfileFail ==
  /\ authPc = "loadProfile"
  /\ failures < MaxFailures /\ Events < eventBudget
  /\ authPc' = "failed"
  /\ failures' = failures + 1
  /\ Escapes("initializeSession")
  /\ UNCHANGED <<session, user, loading, isHydrated, authUid, storeVars, provVars, backVars,
                 asyncVars, fixedVars, addHist, authEvents, remounts, otherWrites, migRuns,
                 debHist, mergeVars, uiVars>>

\* a handler that starts the hydration over on every session event
onAuthStateChangeRestarts(u) ==
  /\ authEvents < MaxAuthEvents /\ Events < eventBudget
  /\ session' = u
  /\ user' = u
  /\ isHydrated' = FALSE
  /\ effectPending' = (effectPending \/ user # u \/ ~isHydrated)
  /\ authEvents' = authEvents + 1
  /\ UNCHANGED <<loading, authPc, authUid, storeVars, prevUserIdRef, hasMigratedRef,
                 migrationMark, invocations, backVars, asyncVars, fixedVars, addHist,
                 remounts, otherWrites, failures, unhandled, migRuns, debHist, mergeVars, uiVars>>

\* the onAuthStateChange handler: the session's user becomes the user, and
\* isHydrated is set; loading is not touched
onAuthStateChange(u) ==
  /\ authEvents < MaxAuthEvents /\ Events < eventBudget
  /\ session' = u
  /\ user' = u
  /\ isHydrated' = TRUE
  /\ effectPending' = (effectPending \/ user # u \/ ~isHydrated)
  /\ authEvents' = authEvents + 1
  /\ UNCHANGED <<loading, authPc, authUid, storeVars, prevUserIdRef, hasMigratedRef,
                 migrationMark, invocations, backVars, asyncVars, fixedVars, addHist,
                 remounts, otherWrites, failures, unhandled, migRuns, debHist, mergeVars, uiVars>>

SignIn(u) == session = None /\ onAuthStateChange(u)

SignOut == session # None /\ onAuthStateChange(None)

TokenRefresh == session # None /\ onAuthStateChange(session)

\* enum AuthState as the components read it: INITIALIZING until the first
\* resolution, then AUTHENTICATED with a user and GUEST without one
authState ==
  IF ~isHydrated THEN "initializing"
  ELSE IF user # None THEN "authenticated" ELSE "guest"

(***************************************************************************)
(* Cart store: initializeCart.                                             *)
(***************************************************************************)
Store == [items |-> items, isInitialized |-> isInitialized, isLoading |-> isLoading]

\* a guard that returns only while a load is in flight
initializeCartSkipsLoadingOnly(st) == st.isLoading

\* the two guards of initializeCart: already initialized, or a load in flight
initializeCartSkips(st) == (st.isInitialized /\ ~st.isLoading) \/ st.isLoading

\* initializeCart(userId) from its call to its first await (or to its end):
\* the store after it, whether it started its load logic, and whether a
\* loadCartFromSupabase is now in flight.  guest is the Local Guest Store.
initializeCart(st, userId, guest) ==
  IF initializeCartSkips(st)
    THEN [st |-> st, started |-> FALSE, load |-> FALSE]
    ELSE IF userId # None
      THEN [st |-> [st EXCEPT !.isLoading = TRUE], started |-> TRUE, load |-> TRUE]
      ELSE [st |-> [items |-> guest, isInitialized |-> TRUE, isLoading |-> FALSE],
            started |-> TRUE, load |-> FALSE]

\* `await loadCartFromSupabase(userId)` of initializeCart returns items
InitLoadOk(i) ==
  /\ i \in 1..Len(initLoads)
  /\ items' = remote[initLoads[i]]
  /\ isInitialized' = TRUE
  /\ isLoading' = FALSE
  /\ initLoads' = RemoveAt(initLoads, i)
  /\ UNCHANGED <<authVars, lastSyncedAt, provVars, backVars, debSupabase, debLocal, saves,
                 verifies, notifications, handlers, fixedVars, histVars, mergeVars, uiVars>>

\* it returns null: `if (loadedItems !== null)` is false, nothing is set
InitLoadNull(i) ==
  /\ i \in 1..Len(initLoads)
  /\ failures < MaxFailures /\ Events < eventBudget
  /\ initLoads' = RemoveAt(initLoads, i)
  /\ failures' = failures + 1
  /\ UNCHANGED <<authVars, storeVars, provVars, backVars, debSupabase, debLocal, saves,
                 verifies, notifications, handlers, fixedVars, addHist, authEvents, remounts,
                 otherWrites, unhandled, migRuns, debHist, mergeVars, uiVars>>

\* a catch block that resets the cart
initializeCartCatchClears(st) ==
  [items |-> <<>>, isInitialized |-> FALSE, isLoading |-> FALSE]

\* what the catch block of initializeCart leaves in the store
initializeCartCatch(st) == [st EXCEPT !.isLoading = FALSE]

\* it throws: catch { set({ isLoading: false }) }
InitLoadFail(i) ==
  /\ i \in 1..Len(initLoads)
  /\ failures < MaxFailures /\ Events < eventBudget
  /\ LET st == initializeCartCatch(Store)
     IN /\ items' = st.items
        /\ isInitialized' = st.isInitialized
        /\ isLoading' = st.isLoading
  /\ initLoads' = RemoveAt(initLoads, i)
  /\ failures' = failures + 1
  /\ UNCHANGED <<authVars, lastSyncedAt, provVars, backVars, debSupabase, debLocal, saves,
                 verifies, notifications, handlers, fixedVars, addHist, authEvents, remounts,
                 otherWrites, unhandled, migRuns, debHist, mergeVars, uiVars>>

(***************************************************************************)
(* CartProvider: the initialization effect and initializeCartWithAuth.     *)
(***************************************************************************)
\* an effect guard that waits for isHydrated only
effectGuardHydratedOnly == isHydrated

\* if (!loading && isHydrated)
effectGuard == ~loading /\ isHydrated

isNewLogin(userId) == userId # None /\ prevUserIdRef = None

isLogout(userId) == userId = None /\ prevUserIdRef # None

\* hasMigratedRef.current, or sessionStorage.getItem(getMigrationKey(userId)) === 'true'
hasMigrated(userId) ==
  IF markMode = "ref" THEN hasMigratedRef ELSE userId \in migrationMark

\* hasMigratedRef.current = true, or sessionStorage.setItem(getMigrationKey(userId), 'true')
SetMark(userId) ==
  IF markMode = "ref"
    THEN hasMigratedRef' = TRUE /\ UNCHANGED migrationMark
    ELSE migrationMark' = migrationMark \cup {userId} /\ UNCHANGED hasMigratedRef

\* "... rest of initialization ...": on logout the cart is cleared and its
\* isInitialized reset; prevUserIdRef follows userId; initializeCart(userId)
RestOfInitialization(st, userId, logout, guest) ==
  LET pre == IF logout THEN [st EXCEPT !.items = <<>>, !.isInitialized = FALSE] ELSE st
      r == initializeCart(pre, userId, guest)
  IN /\ items' = r.st.items
     /\ isInitialized' = r.st.isInitialized
     /\ isLoading' = r.st.isLoading
     /\ initLoads' = IF r.load THEN Append(initLoads, userId) ELSE initLoads
     /\ prevUserIdRef' = userId

\* the effect runs initializeCartWithAuth, up to its first await
CartEffect ==
  /\ effectPending
  /\ effectGuard
  /\ effectPending' = FALSE
  /\ IF isNewLogin(user) /\ ~hasMigrated(user)
       THEN IF Len(guestStore) > 0
              THEN \* await loadCartFromSupabase(userId)
                   /\ invocations' = Append(invocations,
                         [uid |-> user, stage |-> "load", guest |-> guestStore,
                          merged |-> <<>>])
                   /\ UNCHANGED <<items, isInitialized, isLoading, initLoads, prevUserIdRef,
                                  hasMigratedRef, migrationMark>>
              ELSE /\ SetMark(user)
                   /\ RestOfInitialization(Store, user, FALSE, guestStore)
                   /\ UNCHANGED invocations
       ELSE /\ RestOfInitialization(Store, user, isLogout(user), guestStore)
            /\ UNCHANGED <<invocations, hasMigratedRef, migrationMark>>
  /\ UNCHANGED <<authVars, lastSyncedAt, backVars, debSupabase, debLocal, saves, verifies,
                 notifications, handlers, fixedVars, addHist, authEvents, remounts,
                 otherWrites, failures, unhandled, migRuns, debHist, mergeVars, uiVars>>

\* CartProvider unmounts and mounts again: its refs start over, its effect runs
Remount ==
  /\ remounts < MaxRemounts /\ Events < eventBudget
  /\ prevUserIdRef' = None
  /\ hasMigratedRef' = FALSE
  /\ effectPending' = TRUE
  /\ remounts' = remounts + 1
  /\ UNCHANGED <<authVars, storeVars, migrationMark, invocations, backVars, asyncVars,
                 fixedVars, addHist, authEvents, otherWrites, failures, unhandled, migRuns, debHist, mergeVars, uiVars>>

\* a row of carts is written: its updated_at, and the change event for the
\* subscribed user
Notify(uid, ts) ==
  IF user = uid THEN notifications \cup {[uid |-> uid, ts |-> ts]} ELSE notifications

\* migration: `await loadCartFromSupabase(userId)` returns; merge; the save starts
MigLoadOk(i) ==
  /\ i \in 1..Len(invocations)
  /\ invocations[i].stage = "load"
  /\ invocations' = [invocations EXCEPT
        ![i].stage = "save",
        ![i].merged = mergeCartItems(invocations[i].guest, remote[invocations[i].uid])]
  /\ UNCHANGED <<authVars, storeVars, prevUserIdRef, hasMigratedRef, migrationMark,
                 effectPending, backVars, asyncVars, fixedVars, histVars, mergeVars, uiVars>>

\* migration: `await saveCartToSupabase(mergedCart, userId, { maxRetries: 3 })`
\* returns; setState, clearGuestCartFromLocalStorage, the mark, the rest
MigSaveOk(i) ==
  /\ i \in 1..Len(invocations)
  /\ invocations[i].stage = "save"
  /\ LET inv == invocations[i]
     IN /\ remote' = [remote EXCEPT ![inv.uid] = inv.merged]
        /\ clock' = clock + 1
        /\ notifications' = Notify(inv.uid, clock + 1)
        /\ guestStore' = <<>>
        /\ SetMark(inv.uid)
        /\ RestOfInitialization(
              [items |-> inv.merged, isInitialized |-> TRUE, isLoading |-> isLoading],
              inv.uid, FALSE, <<>>)
        /\ migRuns' = [migRuns EXCEPT ![inv.uid] = @ + 1]
  /\ invocations' = RemoveAt(invocations, i)
  /\ UNCHANGED <<authVars, lastSyncedAt, effectPending, debSupabase, debLocal, saves,
                 verifies, handlers, fixedVars, addHist, authEvents, remounts, otherWrites,
                 failures, unhandled, debHist, mergeVars, uiVars>>

\* a migration whose catch block clears the guest cart
MigFailClearsGuest(i) ==
  /\ i \in 1..Len(invocations)
  /\ failures < MaxFailures /\ Events < eventBudget
  /\ SetMark(invocations[i].uid)
  /\ RestOfInitialization(Store, invocations[i].uid, FALSE, <<>>)
  /\ invocations' = RemoveAt(invocations, i)
  /\ failures' = failures + 1
  /\ guestStore' = <<>>
  /\ UNCHANGED <<authVars, lastSyncedAt, effectPending, remote, clock, debSupabase, debLocal,
                 saves, verifies, notifications, handlers, fixedVars, addHist, authEvents,
                 remounts, otherWrites, unhandled, migRuns, debHist, mergeVars, uiVars>>

\* migration: the load or the save throws; catch, then the mark and the rest
MigFail(i) ==
  /\ i \in 1..Len(invocations)
  /\ failures < MaxFailures /\ Events < eventBudget
  /\ SetMark(invocations[i].uid)
  /\ RestOfInitialization(Store, invocations[i].uid, FALSE, guestStore)
  /\ invocations' = RemoveAt(invocations, i)
  /\ failures' = failures + 1
  /\ UNCHANGED <<authVars, lastSyncedAt, effectPending, backVars, debSupabase, debLocal,
                 saves, verifies, notifications, handlers, fixedVars, addHist, authEvents,
                 remounts, otherWrites, unhandled, migRuns, debHist, mergeVars, uiVars>>

(***************************************************************************)
(* Cart store: addItem, syncCart, verifySyncStatus.                        *)
(***************************************************************************)
\* a debounced function is called while its timer may be running: the first
\* arguments are kept
debounceKeepsFirst(pending, args) == IF pending = <<>> THEN <<args>> ELSE pending

\* lodash debounce, trailing: the call restarts the timer and replaces lastArgs
debounce(pending, args) == <<args>>

\* syncCart(userId) with the items it reads from the store
syncCart(its, userId) ==
  IF syncMode = "debounced"
    THEN IF userId # None
           THEN /\ debSupabase' = debounce(debSupabase, [items |-> its, uid |-> userId])
                /\ debHist' = [debHist EXCEPT
                      !.supBursts = IF debSupabase = <<>> THEN @ + 1 ELSE @,
                      !.supLastCall = its]
                /\ UNCHANGED <<debLocal, saves, guestStore>>
           ELSE /\ debLocal' = debounce(debLocal, its)
                /\ debHist' = [debHist EXCEPT
                      !.locBursts = IF debLocal = <<>> THEN @ + 1 ELSE @,
                      !.locLastCall = its]
                /\ UNCHANGED <<debSupabase, saves, guestStore>>
    ELSE IF userId # None
           THEN \* await saveCartToSupabase(items, userId)
                /\ saves' = Append(saves, [items |-> its, uid |-> userId, stamp |-> TRUE])
                /\ UNCHANGED <<debSupabase, debLocal, debHist, guestStore>>
           ELSE \* saveGuestCartToLocalStorage(items)
                /\ guestStore' = its
                /\ UNCHANGED <<debSupabase, debLocal, debHist, saves>>

\* addItem(product, variant, quantity, userId)
addItem(k, q) ==
  /\ Len(addHist) < MaxAdds /\ Events < eventBudget
  /\ items' = Append(items, CartItem(k, q))
  /\ syncCart(Append(items, CartItem(k, q)), user)
  /\ verifies' = IF user # None THEN Append(verifies, user) ELSE verifies
  /\ addHist' = Append(addHist, [userId |-> user, key |-> k, quantity |-> q,
                                 initialized |-> isInitialized])
  /\ UNCHANGED <<authVars, isInitialized, isLoading, lastSyncedAt, provVars, remote, clock,
                 initLoads, notifications, handlers, fixedVars, authEvents, remounts,
                 otherWrites, failures, unhandled, migRuns, mergeVars, uiVars>>

\* the timer of debouncedSyncToSupabase fires: saveCartToSupabase(lastArgs)
FlushSupabase ==
  /\ debSupabase # <<>>
  /\ saves' = Append(saves, [items |-> debSupabase[1].items, uid |-> debSupabase[1].uid,
                             stamp |-> FALSE])
  /\ debSupabase' = <<>>
  /\ debHist' = [debHist EXCEPT !.supWrites = @ + 1]
  /\ UNCHANGED <<authVars, storeVars, provVars, backVars, initLoads, debLocal, verifies,
                 notifications, handlers, fixedVars, addHist, authEvents, remounts,
                 otherWrites, failures, unhandled, migRuns, mergeVars, uiVars>>

\* the timer of debouncedSyncToLocalStorage fires: saveGuestCartToLocalStorage(lastArgs)
FlushLocal ==
  /\ debLocal # <<>>
  /\ guestStore' = debLocal[1]
  /\ debLocal' = <<>>
  /\ debHist' = [debHist EXCEPT !.locWrites = @ + 1]
  /\ UNCHANGED <<authVars, storeVars, provVars, remote, clock, initLoads, debSupabase, saves,
                 verifies, notifications, handlers, fixedVars, addHist, authEvents, remounts,
                 otherWrites, failures, unhandled, migRuns, mergeVars, uiVars>>

\* saveCartToSupabase(items, userId) of syncCart succeeds; the syncCart of
\* Step 5.1 then sets lastSyncedAt: Date.now()
SaveOk(i) ==
  /\ i \in 1..Len(saves)
  /\ remote' = [remote EXCEPT ![saves[i].uid] = saves[i].items]
  /\ clock' = clock + 1
  /\ notifications' = Notify(saves[i].uid, clock + 1)
  /\ lastSyncedAt' = IF saves[i].stamp THEN clock + 1 ELSE lastSyncedAt
  /\ saves' = RemoveAt(saves, i)
  /\ UNCHANGED <<authVars, items, isInitialized, isLoading, provVars, guestStore, initLoads,
                 debSupabase, debLocal, verifies, handlers, fixedVars, histVars, mergeVars, uiVars>>

\* it throws: nothing after the await runs
SaveFail(i) ==
  /\ i \in 1..Len(saves)
  /\ failures < MaxFailures /\ Events < eventBudget
  /\ saves' = RemoveAt(saves, i)
  /\ failures' = failures + 1
  /\ Escapes(IF saves[i].stamp THEN "syncCart" ELSE "debouncedSyncToSupabase")
  /\ UNCHANGED <<authVars, storeVars, provVars, backVars, initLoads, debSupabase, debLocal,
                 verifies, notifications, handlers, fixedVars, addHist, authEvents, remounts,
                 otherWrites, migRuns, debHist, mergeVars, uiVars>>

\* verifySyncStatus: `await loadCartFromSupabase(userId)` returns; on a
\* mismatch the server cart replaces the items
VerifyOk(i) ==
  /\ i \in 1..Len(verifies)
  /\ items' = IF remote[verifies[i]] # items THEN remote[verifies[i]] ELSE items
  /\ verifies' = RemoveAt(verifies, i)
  /\ UNCHANGED <<authVars, isInitialized, isLoading, lastSyncedAt, provVars, backVars,
                 initLoads, debSupabase, debLocal, saves, notifications, handlers, fixedVars,
                 histVars, mergeVars, uiVars>>

\* it throws: catch { console.error }
VerifyFail(i) ==
  /\ i \in 1..Len(verifies)
  /\ failures < MaxFailures /\ Events < eventBudget
  /\ verifies' = RemoveAt(verifies, i)
  /\ failures' = failures + 1
  /\ UNCHANGED <<authVars, storeVars, provVars, backVars, initLoads, debSupabase, debLocal,
                 saves, notifications, handlers, fixedVars, addHist, authEvents, remounts,
                 otherWrites, unhandled, migRuns, debHist, mergeVars, uiVars>>

(***************************************************************************)
(* CartProvider: the realtime postgres_changes handler.                    *)
(***************************************************************************)
\* the handler is called with payload.new.updated_at = n.ts: it reads the
\* current items and awaits loadCartFromSupabase(userId)
ReceiveNotification(n) ==
  /\ n \in notifications
  /\ n.uid = user
  /\ handlers' = Append(handlers, [uid |-> n.uid, ts |-> n.ts, currentItems |-> items])
  /\ notifications' = notifications \ {n}
  /\ UNCHANGED <<authVars, storeVars, provVars, backVars, initLoads, debSupabase, debLocal,
                 saves, verifies, fixedVars, histVars, mergeVars, uiVars>>

\* the channel of a user who is no longer the user delivers nothing
DropNotification(n) ==
  /\ n \in notifications
  /\ n.uid # user
  /\ notifications' = notifications \ {n}
  /\ UNCHANGED <<authVars, storeVars, provVars, backVars, initLoads, debSupabase, debLocal,
                 saves, verifies, handlers, fixedVars, histVars, mergeVars, uiVars>>

\* an update is taken when its timestamp is not older than lastSyncedAt
isNewerOrEqual(serverTimestamp, currentTimestamp) == serverTimestamp >= currentTimestamp

\* every update is taken, whatever its timestamp
isAnyTimestamp(serverTimestamp, currentTimestamp) == TRUE

\* if (serverTimestamp > currentTimestamp)
isNewer(serverTimestamp, currentTimestamp) == serverTimestamp > currentTimestamp

\* the load returns freshCart; the timestamps are compared; merge and setState
HandlerOk(i) ==
  /\ i \in 1..Len(handlers)
  /\ IF isNewer(handlers[i].ts, lastSyncedAt)
       THEN /\ items' = mergeCartItems(remote[handlers[i].uid], handlers[i].currentItems)
            /\ lastSyncedAt' = handlers[i].ts
       ELSE UNCHANGED <<items, lastSyncedAt>>
  /\ handlers' = RemoveAt(handlers, i)
  /\ UNCHANGED <<authVars, isInitialized, isLoading, provVars, backVars, initLoads,
                 debSupabase, debLocal, saves, verifies, notifications, fixedVars, histVars,
                 mergeVars, uiVars>>

\* the load throws: the handler has no try/catch
HandlerFail(i) ==
  /\ i \in 1..Len(handlers)
  /\ failures < MaxFailures /\ Events < eventBudget
  /\ handlers' = RemoveAt(handlers, i)
  /\ failures' = failures + 1
  /\ Escapes("realtimeHandler")
  /\ UNCHANGED <<authVars, storeVars, provVars, backVars, initLoads, debSupabase, debLocal,
                 saves, verifies, notifications, fixedVars, addHist, authEvents, remounts,
                 otherWrites, migRuns, debHist, mergeVars, uiVars>>

(***************************************************************************)
(* Another tab of the same browser session writes the user's remote cart.  *)
(***************************************************************************)
OtherTabWrite ==
  /\ otherWrites < MaxOtherWrites /\ Events < eventBudget
  /\ session # None
  /\ remote' = [remote EXCEPT ![session] = Append(@, CartItem(KB, 1))]
  /\ clock' = clock + 1
  /\ notifications' = Notify(session, clock + 1)
  /\ otherWrites' = otherWrites + 1
  /\ UNCHANGED <<authVars, storeVars, provVars, guestStore, initLoads, debSupabase, debLocal,
                 saves, verifies, handlers, fixedVars, addHist, authEvents, remounts, failures, unhandled,
                 migRuns, debHist, mergeVars, uiVars>>

(***************************************************************************)
(* The specification.                                                      *)
(***************************************************************************)
Next ==
  \/ GetSessionReturn
  \/ GetSessionFail
  \/ LoadProfileReturn
  \/ LoadProfileFail
  \/ \E u \in Users : SignIn(u)
  \/ SignOut
  \/ TokenRefresh
  \/ CartEffect
  \/ Remount
  \/ \E i \in 1..Len(initLoads) : InitLoadOk(i)
  \/ \E i \in 1..Len(initLoads) : InitLoadNull(i)
  \/ \E i \in 1..Len(initLoads) : InitLoadFail(i)
  \/ \E i \in 1..Len(invocations) : MigLoadOk(i)
  \/ \E i \in 1..Len(invocations) : MigSaveOk(i)
  \/ \E i \in 1..Len(invocations) : MigFail(i)
  \/ \E c \in AddChoices : addItem(c[1], c[2])
  \/ FlushSupabase
  \/ FlushLocal
  \/ \E i \in 1..Len(saves) : SaveOk(i)
  \/ \E i \in 1..Len(saves) : SaveFail(i)
  \/ \E i \in 1..Len(verifies) : VerifyOk(i)
  \/ \E i \in 1..Len(verifies) : VerifyFail(i)
  \/ \E n \in notifications : ReceiveNotification(n)
  \/ \E n \in notifications : DropNotification(n)
  \/ \E i \in 1..Len(handlers) : HandlerOk(i)
  \/ \E i \in 1..Len(handlers) : HandlerFail(i)
  \/ OtherTabWrite

Spec == Init /\ [][Next]_vars

\* nothing is pending or in flight
Quiescent ==
  /\ authPc \in {"done", "failed"}
  /\ ~(effectPending /\ effectGuard)
  /\ invocations = <<>> /\ initLoads = <<>>
  /\ debSupabase = <<>> /\ debLocal = <<>>
  /\ saves = <<>> /\ verifies = <<>>
  /\ notifications = {} /\ handlers = <<>>

(***************************************************************************)
(* Specification of mergeCartItems alone: any two carts go in.             *)
(***************************************************************************)
MergeCarts == SeqsUpTo({CartItem(k, q) : k \in Keys, q \in Quantities}, MergeMaxLen)

\* a page on which nobody is signed in and the cart engine does nothing
MachineOff ==
  /\ session = None /\ user = None /\ loading = TRUE /\ isHydrated = FALSE
  /\ authPc = "getSession" /\ authUid = None
  /\ items = <<>> /\ isInitialized = FALSE /\ isLoading = FALSE /\ lastSyncedAt = 0
  /\ prevUserIdRef = None /\ hasMigratedRef = FALSE /\ migrationMark = {}
  /\ effectPending = FALSE /\ invocations = <<>>
  /\ guestStore = <<>> /\ remote = [u \in Users |-> <<>>] /\ clock = 0
  /\ initLoads = <<>> /\ debSupabase = <<>> /\ debLocal = <<>> /\ saves = <<>>
  /\ verifies = <<>> /\ notifications = {} /\ handlers = <<>>
  /\ markMode = "ref" /\ syncMode = "debounced"
  /\ session0 = None /\ guestStore0 = <<>> /\ eventBudget = MaxEvents
  /\ addHist = <<>> /\ authEvents = 0 /\ remounts = 0 /\ otherWrites = 0 /\ failures = 0
  /\ unhandled = {}
  /\ migRuns = [u \in Users |-> 0]
  /\ debHist = NoDebHist

MergeInit ==
  /\ mPc = "call"
  /\ mGuest \in MergeCarts
  /\ mUser \in MergeCarts
  /\ mResult = <<>>
  /\ MachineOff
  /\ CarouselOff /\ FiltersOff

MergeCall ==
  /\ mPc = "call"
  /\ mResult' = mergeCartItems(mGuest, mUser)
  /\ mPc' = "merged"
  /\ UNCHANGED <<mGuest, mUser, machineVars, uiVars>>

MergeNext == MergeCall

SpecMerge == MergeInit /\ [][MergeNext]_vars

(***************************************************************************)
(* Specification of a change of user within one page lifetime: the page is *)
(* loaded with the session of u1, Step 3.1's hasMigratedRef is the mark,   *)
(* and the run is long enough for a sign-out, a guest addItem and the      *)
(* sign-in of another user.                                                *)
(***************************************************************************)
SwitchInit ==
  /\ MachineInit
  /\ session0 = "u1" /\ markMode = "ref"
  /\ eventBudget = SwitchEvents
  /\ CarouselOff /\ FiltersOff
  /\ mPc = "off" /\ mGuest = <<>> /\ mUser = <<>> /\ mResult = <<>>

SpecSwitch == SwitchInit /\ [][Next]_vars

(***************************************************************************)
(* HeroCarousel: the slide navigation and its transition lock.             *)
(***************************************************************************)
MaxBanners == 3
MaxNavCalls == 3

\* e.touches[0].clientX, in pixels
TouchXs == {0, 100}

\* a guard that never finds the lock held
navBlockedNever == FALSE

\* the lock test of nextSlide, prevSlide and goToSlide: isTransitioningRef.current
navBlocked == isTransitioningRef

\* the body the three callbacks share after their guard: take the lock,
\* setCurrentSlide, and start the timer that releases the lock
TakeLock(slide) ==
  /\ isTransitioningRef' = TRUE
  /\ isTransitioning' = TRUE
  /\ currentSlide' = slide
  /\ releaseTimers' = releaseTimers + 1
  /\ slideChanges' = slideChanges + 1
  /\ UNCHANGED blockedCalls

\* a callback returns at its guard
ReturnAtGuard(locked) ==
  /\ blockedCalls' = IF locked THEN blockedCalls + 1 ELSE blockedCalls
  /\ UNCHANGED <<currentSlide, isTransitioning, isTransitioningRef, releaseTimers,
                 slideChanges>>

nextSlide ==
  /\ navCalls < MaxNavCalls
  /\ navCalls' = navCalls + 1
  /\ IF bannersLength = 0 \/ navBlocked
       THEN ReturnAtGuard(bannersLength # 0)
       ELSE TakeLock((currentSlide + 1) % bannersLength)

prevSlide ==
  /\ navCalls < MaxNavCalls
  /\ navCalls' = navCalls + 1
  /\ IF bannersLength = 0 \/ navBlocked
       THEN ReturnAtGuard(bannersLength # 0)
       ELSE TakeLock((currentSlide - 1 + bannersLength) % bannersLength)

goToSlide(index) ==
  /\ navCalls < MaxNavCalls
  /\ navCalls' = navCalls + 1
  /\ IF navBlocked
       THEN ReturnAtGuard(TRUE)
       ELSE TakeLock(index)

\* what a navigation event leaves alone
NavFrame ==
  UNCHANGED <<bannersLength, isAutoPlaying, touchStartX, touchEndX, machineVars, mergeVars,
              filterVars>>

\* the arrow buttons, rendered when banners.length > 1
ClickNext == bannersLength > 1 /\ nextSlide /\ NavFrame

ClickPrev == bannersLength > 1 /\ prevSlide /\ NavFrame

\* an indicator dot: onClick={() => goToSlide(index)}, one dot per banner
ClickIndicator(index) ==
  /\ bannersLength > 1
  /\ index \in 0..(bannersLength - 1)
  /\ goToSlide(index)
  /\ NavFrame

\* handleKeyDown of the window listener
KeyDown(key) ==
  /\ IF key = "ArrowLeft" THEN prevSlide ELSE nextSlide
  /\ NavFrame

\* the setInterval(nextSlide, 6000) of the auto-play effect
AutoPlayTick ==
  /\ isAutoPlaying /\ bannersLength > 1
  /\ nextSlide
  /\ NavFrame

handleTouchStart(x) ==
  /\ bannersLength > 0
  /\ touchStartX' = x
  /\ UNCHANGED <<bannersLength, currentSlide, isAutoPlaying, isTransitioning,
                 isTransitioningRef, touchEndX, releaseTimers, navCalls, blockedCalls,
                 slideChanges, machineVars, mergeVars, filterVars>>

handleTouchMove(x) ==
  /\ bannersLength > 0
  /\ touchEndX' = x
  /\ UNCHANGED <<bannersLength, currentSlide, isAutoPlaying, isTransitioning,
                 isTransitioningRef, touchStartX, releaseTimers, navCalls, blockedCalls,
                 slideChanges, machineVars, mergeVars, filterVars>>

\* diff = touchStartX - touchEndX against the threshold of 50
handleTouchEnd ==
  /\ bannersLength > 0
  /\ LET diff == touchStartX - touchEndX
     IN IF diff > 50 THEN nextSlide
        ELSE IF diff < -50 THEN prevSlide
        ELSE FALSE
  /\ NavFrame

pauseAutoPlay ==
  /\ bannersLength > 0
  /\ isAutoPlaying
  /\ isAutoPlaying' = FALSE
  /\ UNCHANGED <<bannersLength, currentSlide, isTransitioning, isTransitioningRef,
                 touchStartX, touchEndX, releaseTimers, navCalls, blockedCalls, slideChanges,
                 machineVars, mergeVars, filterVars>>

resumeAutoPlay ==
  /\ bannersLength > 0
  /\ ~isAutoPlaying
  /\ isAutoPlaying' = TRUE
  /\ UNCHANGED <<bannersLength, currentSlide, isTransitioning, isTransitioningRef,
                 touchStartX, touchEndX, releaseTimers, navCalls, blockedCalls, slideChanges,
                 machineVars, mergeVars, filterVars>>

\* a timer of TRANSITION_DURATION fires: setIsTransitioning(false) and
\* isTransitioningRef.current = false
ReleaseTimer ==
  /\ releaseTimers > 0
  /\ isTransitioning' = FALSE
  /\ isTransitioningRef' = FALSE
  /\ releaseTimers' = releaseTimers - 1
  /\ slideChanges' = 0
  /\ UNCHANGED <<bannersLength, currentSlide, isAutoPlaying, touchStartX, touchEndX, navCalls,
                 blockedCalls, machineVars, mergeVars, filterVars>>

\* the component is mounted with its banners
CarouselInit ==
  /\ \E n \in 0..MaxBanners : bannersLength = n
  /\ currentSlide = 0 /\ isAutoPlaying = TRUE
  /\ isTransitioning = FALSE /\ isTransitioningRef = FALSE
  /\ touchStartX = 0 /\ touchEndX = 0
  /\ releaseTimers = 0 /\ navCalls = 0 /\ blockedCalls = 0 /\ slideChanges = 0
  /\ MachineOff /\ FiltersOff
  /\ mPc = "off" /\ mGuest = <<>> /\ mUser = <<>> /\ mResult = <<>>

CarouselNext ==
  \/ ClickNext
  \/ ClickPrev
  \/ \E index \in 0..(MaxBanners - 1) : ClickIndicator(index)
  \/ \E key \in {"ArrowLeft", "ArrowRight"} : KeyDown(key)
  \/ AutoPlayTick
  \/ \E x \in TouchXs : handleTouchStart(x)
  \/ \E x \in TouchXs : handleTouchMove(x)
  \/ handleTouchEnd
  \/ pauseAutoPlay
  \/ resumeAutoPlay
  \/ ReleaseTimer

\* a timer that was started fires
SpecCarousel == CarouselInit /\ [][CarouselNext]_vars /\ WF_vars(ReleaseTimer)

(***************************************************************************)
(* FilterContent of the product gallery: the filter checkboxes and the URL *)
(* query.  A filter's values are kept as the list that join(",") writes    *)
(* and split(",").filter(Boolean) reads back; no value holds a comma.      *)
(***************************************************************************)
MaxClicks == 3

NoFilters == [k \in FilterKeys |-> <<>>]

\* newValues.includes(value) / newValues.indexOf(value), 0 for JS's -1
indexOf(values, value) ==
  LET hits == {i \in 1..Len(values) : values[i] = value}
  IN IF hits = {} THEN 0 ELSE CHOOSE i \in hits : \A j \in hits : i <= j

\* newValues after the if (checked) push / else splice
toggled(currentValues, value, checked) ==
  LET index == indexOf(currentValues, value)
  IN IF checked
       THEN IF index = 0 THEN Append(currentValues, value) ELSE currentValues
       ELSE IF index > 0 THEN RemoveAt(currentValues, index) ELSE currentValues

\* new URLSearchParams(searchParams.toString()): searchParams is the value
\* useSearchParams() returned to the render that created the callback
paramsBase == searchParams

\* isChecked of a checkbox: optimisticFilters first, then activeFilters
isChecked(key, value) ==
  \/ (optimisticFilters[key] # <<>> /\ indexOf(optimisticFilters[key][1], value) > 0)
  \/ indexOf(searchParams[key], value) > 0

updateFilters(key, value, checked) ==
  /\ Len(clicks) < MaxClicks
  /\ LET currentValues == IF optimisticFilters[key] # <<>> THEN optimisticFilters[key][1]
                          ELSE searchParams[key]
         newValues == toggled(currentValues, value, checked)
     IN optimisticFilters' =
          [optimisticFilters EXCEPT ![key] = IF newValues # <<>> THEN <<newValues>> ELSE <<>>]
  /\ LET params == paramsBase
         newValues == toggled(params[key], value, checked)
     IN pendingNavs' = Append(pendingNavs, [params EXCEPT ![key] = newValues])
  /\ clicks' = Append(clicks, [key |-> key, value |-> value, checked |-> checked])
  /\ UNCHANGED <<searchParams, carouselVars, machineVars, mergeVars>>

\* the user clicks a checkbox: onCheckedChange with the opposite of isChecked
ToggleCheckbox(key, value) == updateFilters(key, value, ~isChecked(key, value))

clearFilters ==
  /\ Len(clicks) < MaxClicks
  /\ optimisticFilters' = NoFilters
  /\ pendingNavs' = Append(pendingNavs, NoFilters)
  /\ clicks' = Append(clicks, [key |-> "clear", value |-> "clear", checked |-> FALSE])
  /\ UNCHANGED <<searchParams, carouselVars, machineVars, mergeVars>>

\* a router.replace is committed: the component renders with the new
\* searchParams, and the effect on [searchParams] resets optimisticFilters
NavCommit ==
  /\ pendingNavs # <<>>
  /\ searchParams' = Head(pendingNavs)
  /\ pendingNavs' = Tail(pendingNavs)
  /\ optimisticFilters' = IF Head(pendingNavs) # searchParams THEN NoFilters
                          ELSE optimisticFilters
  /\ UNCHANGED <<clicks, carouselVars, machineVars, mergeVars>>

\* a later router.replace replaces a navigation that has not been committed
NavSuperseded ==
  /\ Len(pendingNavs) >= 2
  /\ pendingNavs' = Tail(pendingNavs)
  /\ UNCHANGED <<searchParams, optimisticFilters, clicks, carouselVars, machineVars,
                 mergeVars>>

\* the gallery is opened with no filter in the URL, or with material=x
FiltersInit ==
  /\ searchParams \in {NoFilters, [NoFilters EXCEPT !["material"] = <<"x">>]}
  /\ optimisticFilters = NoFilters
  /\ pendingNavs = <<>> /\ clicks = <<>>
  /\ MachineOff /\ CarouselOff
  /\ mPc = "off" /\ mGuest = <<>> /\ mUser = <<>> /\ mResult = <<>>

FiltersNext ==
  \/ \E key \in FilterKeys, value \in FilterValues : ToggleCheckbox(key, value)
  \/ clearFilters
  \/ NavCommit
  \/ NavSuperseded

SpecFilters == FiltersInit /\ [][FiltersNext]_vars

(***************************************************************************)
(* Properties.                                                             *)
(***************************************************************************)
\* the carts of the example of the merge
ExampleU == <<CartItem(KA, 2)>>
ExampleG == <<CartItem(KA, 3), CartItem(KB, 1)>>

\* C1: for every user cart U and guest cart G, mergeCartItems(G, U) holds, for
\* each (productId, variantId) key, the sum of the key's quantities in U and
\* in G, so every key of U or G is present; U = [(p1,v1,2)] and
\* G = [(p1,v1,3), (p2,v2,1)] give [(p1,v1,5), (p2,v2,1)].
C1_MergeAdditive ==
  mPc = "merged" =>
    /\ \A k \in Keys : QtyOf(mResult, k) = QtyOf(mUser, k) + QtyOf(mGuest, k)
    /\ \A i \in 1..Len(mUser) : \E j \in 1..Len(mResult) : KeyOf(mResult[j]) = KeyOf(mUser[i])
    /\ \A i \in 1..Len(mGuest) : \E j \in 1..Len(mResult) : KeyOf(mResult[j]) = KeyOf(mGuest[i])
    /\ (mUser = ExampleU /\ mGuest = ExampleG
          => mResult = <<CartItem(KA, 5), CartItem(KB, 1)>>)

\* the example has been merged
C1_Witness ==
  /\ mPc = "merged" /\ mUser = ExampleU /\ mGuest = ExampleG
  /\ mResult = <<CartItem(KA, 5), CartItem(KB, 1)>>

\* the cart holds qa units of KA, qb units of KB and nothing else
HoldsAB(cart, qa, qb) ==
  \A k \in Keys : QtyOf(cart, k) = (IF k = KA THEN qa ELSE IF k = KB THEN qb ELSE 0)

\* the mark of the build is set for the user
MarkSet(userId) == IF markMode = "ref" THEN hasMigratedRef ELSE userId \in migrationMark

\* a page load as a guest with nothing stored; the guest has added 2 units of
\* A to the initialized cart and has then signed in as u1, whose remote cart
\* held A x1 and B x1; nothing else has happened and no call has failed
C2_Scenario ==
  /\ syncMode = "debounced"
  /\ session0 = None /\ guestStore0 = <<>>
  /\ addHist = <<[userId |-> None, key |-> KA, quantity |-> 2, initialized |-> TRUE]>>
  /\ authEvents = 1 /\ user = "u1"
  /\ remounts = 0 /\ otherWrites = 0 /\ failures = 0

\* C2: whenever a guest adds 2 units of A and then signs in as a user whose
\* remote cart holds A x1 and B x1, then for every interleaving of the sign-in
\* with the debounced guest-store write, and no failing call, the system ends
\* with items and remote cart equal to A x3, B x1, the Local Guest Store empty
\* and the migration mark set for that user.
C2_ScenarioEndsMerged ==
  (C2_Scenario /\ Quiescent) =>
    /\ HoldsAB(items, 3, 1)
    /\ HoldsAB(remote["u1"], 3, 1)
    /\ guestStore = <<>>
    /\ MarkSet("u1")

\* a step in which initializeCartWithAuth runs to its end, calling initializeCart
CallsInitializeCart ==
  \/ CartEffect /\ ~(isNewLogin(user) /\ ~hasMigrated(user) /\ Len(guestStore) > 0)
  \/ \E i \in 1..Len(invocations) : MigSaveOk(i)
  \/ \E i \in 1..Len(invocations) : MigFail(i)

\* C3: for every sequence of session events, initializeCart never starts its
\* load while the auth state is unresolved: every step that calls
\* initializeCart, and every step that puts a remote load in flight, is taken
\* with isHydrated true and auth loading false.
C3_NoPrematureInit ==
  /\ [][CallsInitializeCart => (isHydrated /\ ~loading)]_vars
  /\ [][Len(initLoads') > Len(initLoads) => (isHydrated /\ ~loading)]_vars

\* a session event came while getSession was pending, and the load started later
C3_Witness == authEvents >= 1 /\ authPc = "done" /\ initLoads # <<>> /\ isLoading

\* C4: a call of initializeCart made while isInitialized is true, or while
\* isLoading is true, starts no load and leaves items, isInitialized and
\* isLoading unchanged; at most one load is ever in flight.
C4_IdempotentInit ==
  /\ [][(/\ CartEffect
         /\ ~(isNewLogin(user) /\ ~hasMigrated(user) /\ Len(guestStore) > 0)
         /\ ~isLogout(user)
         /\ (isInitialized \/ isLoading))
        => UNCHANGED <<items, isInitialized, isLoading, initLoads>>]_vars
  /\ [][((\E i \in 1..Len(invocations) : MigFail(i)) /\ (isInitialized \/ isLoading))
        => UNCHANGED <<items, isInitialized, isLoading, initLoads>>]_vars
  /\ [][(\E i \in 1..Len(invocations) : MigSaveOk(i))
        => (initLoads' = initLoads /\ isInitialized' /\ isLoading' = isLoading)]_vars
  /\ [](Len(initLoads) <= 1)

\* the sign-in has made the effect call initializeCart(u1) on the initialized
\* guest cart: no load of u1's cart was started
C4_Witness ==
  /\ session0 = None /\ authEvents = 1 /\ user = "u1" /\ prevUserIdRef = "u1"
  /\ isInitialized /\ ~isLoading /\ items = <<>> /\ initLoads = <<>>
  /\ addHist = <<>> /\ failures = 0

\* C5: if the load of initializeCart fails (it throws, or returns null), or an
\* outbound sync write fails, the items after the failure are the items
\* before it, and the failed load does not change isInitialized.
C5_ErrorPreservesItems ==
  /\ [][(\E i \in 1..Len(initLoads) : InitLoadFail(i) \/ InitLoadNull(i))
        => (items' = items /\ isInitialized' = isInitialized)]_vars
  /\ [][(\E i \in 1..Len(saves) : SaveFail(i)) => items' = items]_vars

\* the load of initializeCart has thrown with an item in the cart
C5_Witness ==
  /\ failures = 1 /\ user # None /\ prevUserIdRef = user /\ initLoads = <<>>
  /\ ~isLoading /\ ~isInitialized /\ items # <<>>

\* C6: an inbound change notification whose updated_at is less than or equal
\* to lastSyncedAt when the handler compares them changes neither items nor
\* lastSyncedAt, in whatever order the notifications are handled.
C6_StaleNotificationRejected ==
  [][\A i \in 1..Len(handlers) :
       (HandlerOk(i) /\ handlers[i].ts <= lastSyncedAt) => UNCHANGED <<items, lastSyncedAt>>]_vars

\* the notification of the user's own stamped write has been handled
C6_Witness ==
  /\ syncMode = "timestamped" /\ session0 = "u1" /\ authEvents = 0
  /\ Len(addHist) = 1 /\ addHist[1].userId = "u1"
  /\ clock = 1 /\ lastSyncedAt = 1 /\ saves = <<>>
  /\ notifications = {} /\ handlers = <<>>
  /\ otherWrites = 0 /\ failures = 0

C8_MigrationAtMostOnce == \A u \in Users : migRuns[u] <= 1

\* C9: for an authenticated user, once local mutations and writes from other
\* tabs have stopped and no remote call has failed, the in-memory items equal
\* the Remote Cart Store's cart of that user: when nothing is pending or in
\* flight any more, the two hold the same quantity of every key.
C9_Converged ==
  (/\ Quiescent
   /\ session0 = "u1" /\ user = "u1" /\ authEvents = 0 /\ remounts = 0
   /\ isInitialized /\ failures = 0)
  => \A k \in Keys : QtyOf(items, k) = QtyOf(remote["u1"], k)

\* C10: if the guest-cart migration fails at its load or at its save, the
\* Local Guest Store and the in-memory items are left as they were; the
\* load's return changes neither, and the guest store is emptied only by the
\* step that follows a successful save.
C10_MigrationFailureKeepsGuestCart ==
  /\ [][(\E i \in 1..Len(invocations) : MigFail(i) \/ MigLoadOk(i))
        => UNCHANGED <<guestStore, items>>]_vars
  /\ [][(guestStore # <<>> /\ guestStore' = <<>>)
        => \E i \in 1..Len(invocations) : MigSaveOk(i)]_vars

\* a migration has failed and the guest cart is still stored
C10_Witness ==
  /\ failures = 1 /\ invocations = <<>>
  /\ user # None /\ prevUserIdRef = user /\ MarkSet(user) /\ migRuns[user] = 0
  /\ guestStore0 # <<>> /\ guestStore = guestStore0 /\ items = guestStore0

\* C11: if the guest-cart migration fails for a user, the migration mark of
\* that user is left unset (so that the next qualifying sign-in of the user
\* runs the migration again).
C11_FailureLeavesMarkUnset ==
  [][\A i \in 1..Len(invocations) :
       LET u == invocations[i].uid
       IN MigFail(i) =>
            ~(IF markMode = "ref" THEN hasMigratedRef' ELSE u \in migrationMark')]_vars

C13_TotalPriceInvariant ==
  \A i \in 1..Len(items) : items[i].totalPrice = items[i].pricePerUnit * items[i].quantity

\* the migration has merged the guest's A x1 into u1's A x1
C13_Witness ==
  /\ migRuns["u1"] = 1 /\ guestStore0 # <<>> /\ items # <<>>
  /\ items[1] = CartItem(KA, 2)

\* C14: once the auth state has left INITIALIZING no later step returns it
\* there: isHydrated never becomes false again, and a token refresh of an
\* authenticated user leaves the state AUTHENTICATED.
C14_HydrationNeverReverts ==
  /\ [][isHydrated => isHydrated']_vars
  /\ [][authState # "initializing" => authState' # "initializing"]_vars
  /\ [][(TokenRefresh /\ authState = "authenticated") => authState' = "authenticated"]_vars

\* u1 signed out after the cart had started loading for u1: the state is GUEST
C14_Witness ==
  /\ session0 = "u1" /\ authEvents = 1 /\ session = None /\ user = None
  /\ authState = "guest" /\ initLoads = <<"u1">>

\* C15: if the initial session fetch, or the profile load that follows it,
\* fails, the auth state still leaves INITIALIZING for a terminal state that
\* dependents treat as guest: once initializeSession has ended in the failure
\* and nothing is pending, the guard of the cart's effect is open.
C15_FailureStillHydrates ==
  (authPc = "failed" /\ Quiescent) => (isHydrated /\ ~loading)

\* C16: every initializeCart call that set isLoading = true sets it back to
\* false whatever the outcome of its load (items, a failure thrown, or no
\* valid data): once no load of initializeCart is in flight, isLoading is
\* false and a later call is not stopped by the in-flight guard.
C16_LoadingCleared == initLoads = <<>> => ~isLoading

\* u1 was signed in at page load, added an item to the initialized cart and
\* has signed out; nothing else has happened, no call has failed and nothing
\* is pending
C17_Scenario ==
  /\ session0 = "u1" /\ authEvents = 1 /\ session = None /\ user = None
  /\ Len(addHist) = 1 /\ addHist[1].userId = "u1" /\ addHist[1].initialized
  /\ remounts = 0 /\ otherWrites = 0 /\ failures = 0
  /\ Quiescent

\* C17: after a sign-out the in-memory cart is cleared: items is empty, it no
\* longer holds the lines of the user who signed out, though the cart had
\* been initialized for that user.
C17_SignOutClearsCart == C17_Scenario => items = <<>>

\* a page load as a guest with nothing stored, then the sign-in of u1; no
\* addItem, no other event, no failed call, and nothing is pending
C18_Scenario ==
  /\ session0 = None /\ guestStore0 = <<>> /\ authEvents = 1 /\ user = "u1"
  /\ addHist = <<>> /\ remounts = 0 /\ otherWrites = 0 /\ failures = 0
  /\ Quiescent

\* C18: for each store source the cart is loaded once: when a cart
\* initialized as guest is followed by a sign-in, the user's remote cart is
\* loaded or merged into items.
C18_UserCartLoadedOnce ==
  C18_Scenario => (isInitialized /\ \A k \in Keys : QtyOf(items, k) = QtyOf(remote["u1"], k))

\* the build with the debounced syncCart; u1 was signed in at page load and
\* made one addItem of A x2 on the initialized cart; no other writer, no
\* session event, no failed call
C19_Scenario ==
  /\ syncMode = "debounced"
  /\ session0 = "u1" /\ user = "u1" /\ authEvents = 0
  /\ addHist = <<[userId |-> "u1", key |-> KA, quantity |-> 2, initialized |-> TRUE]>>
  /\ remounts = 0 /\ otherWrites = 0 /\ failures = 0

\* C19: after addItem by an authenticated user, with no failing call and no
\* other writer, the added item is in the local items in every later state:
\* the verification read never removes it, whatever its order relative to
\* the debounced write.
C19_AddedItemStays == C19_Scenario => QtyOf(items, KA) >= 2

\* C20: when an inbound notification is accepted on the initialized cart the
\* result is an additive merge: every line in the local items when the result
\* is applied, one added while the handler's fetch was in flight included, is
\* still there afterwards with at least its local quantity.
C20_InboundMergeKeepsLocal ==
  [][\A i \in 1..Len(handlers) :
       (isInitialized /\ HandlerOk(i) /\ isNewer(handlers[i].ts, lastSyncedAt))
         => \A k \in Keys : QtyOf(items', k) >= QtyOf(items, k)]_vars

\* C21: the response of a remote load requested for identity X (the load of
\* initializeCart, the fetch of the inbound-notification handler, the
\* verification read) is not written into items when the session's identity
\* is no longer X at the time the response arrives.
C21_StaleResponseDropped ==
  /\ [][\A i \in 1..Len(initLoads) :
          (InitLoadOk(i) /\ initLoads[i] # session) => items' = items]_vars
  /\ [][\A i \in 1..Len(verifies) :
          (VerifyOk(i) /\ verifies[i] # session) => items' = items]_vars
  /\ [][\A i \in 1..Len(handlers) :
          (HandlerOk(i) /\ handlers[i].uid # session) => items' = items]_vars

\* every addItem so far was made on the initialized cart
AddsOnInitializedCart == \A j \in 1..Len(addHist) : addHist[j].initialized

\* C22: the payload of every debounced outbound write equals the in-memory
\* items at the moment the write is issued (flush time), even when items were
\* changed between the last syncCart call and the flush by an operation that
\* does not call syncCart (accepted inbound update, verification replace,
\* migration setState); stated for calls made on the initialized cart.
C22_FlushWritesCurrentItems ==
  /\ [][(FlushSupabase /\ AddsOnInitializedCart)
          => saves'[Len(saves')].items = items]_vars
  /\ [][(FlushLocal /\ AddsOnInitializedCart) => guestStore' = items]_vars

\* C23: addItem of a product whose (productId, variantId) is already in the
\* cart increments that line's quantity instead of adding a second line:
\* after any number of rapid addItem calls for the same product and variant
\* the cart holds exactly one line for that key, with quantity equal to the
\* sum of the added quantities.
C23_AddItemIncrements ==
  [][\A c \in AddChoices :
       (addItem(c[1], c[2]) /\ LinesOf(items, c[1]) <= 1) =>
         /\ LinesOf(items', c[1]) = 1
         /\ QtyOf(items', c[1]) = QtyOf(items, c[1]) + c[2]]_vars

\* the effect runs initializeCartWithAuth for the first sign-in of u within
\* the page lifetime: the page was loaded with the session of u1, who signed
\* out, and u then signed in
FirstSignInAfterU1(u) ==
  /\ session0 = "u1" /\ u # "u1" /\ authEvents = 2 /\ user = u
  /\ CartEffect /\ isNewLogin(u)

\* C24: the migration mark is per user: a migration recorded for user A does
\* not suppress the guest-cart migration of a different user B who signs in
\* later in the same page lifetime (sign out, add guest items, sign in as a
\* different user): the effect that runs for B's first sign-in with a
\* non-empty Local Guest Store starts B's migration.
C24_MarkPerUser ==
  [][\A u \in Users :
       (FirstSignInAfterU1(u) /\ Len(guestStore) > 0)
         => Len(invocations') = Len(invocations) + 1]_vars

\* the operations of the cart engine that make a remote or storage call
CartEngineOps ==
  {"initializeCart", "debouncedSyncToSupabase", "syncCart", "realtimeHandler",
   "verifySyncStatus", "initializeCartWithAuth"}

\* C25: a failure of any remote or storage call made by the cart engine (the
\* load of initializeCart, the debounced save, the fetch of the
\* inbound-notification handler, the verification read, the migration's load
\* and save) is caught inside the engine and turned into state; none of them
\* escapes as an unhandled rejection.
C25_NoUnhandledRejection == unhandled \cap CartEngineOps = {}

\* C26: accepting an inbound notification is idempotent when nothing differs:
\* if the local items equal the remote cart when the handler's fetch returns
\* (the notification is the echo of this tab's own save, or of its own
\* migration write), then after the handler has run on the initialized cart
\* the items still equal the remote cart: no quantity is doubled.
C26_EchoIsIdempotent ==
  [][\A i \in 1..Len(handlers) :
       (HandlerOk(i) /\ isInitialized /\ items # <<>> /\ items = remote[handlers[i].uid])
         => \A k \in Keys : QtyOf(items', k) = QtyOf(remote[handlers[i].uid], k)]_vars

\* C27: after a successful guest-cart migration has cleared the Local Guest
\* Store, the guest store stays empty until the next guest-mode cart
\* mutation: while the migrated user is signed in, a debounced guest-store
\* write that was scheduled before the sign-in never re-populates it with the
\* already-migrated items.
C27_GuestStoreStaysCleared ==
  [][(/\ user # None /\ migRuns[user] >= 1
      /\ AddsOnInitializedCart
      /\ guestStore = <<>>)
       => guestStore' = <<>>]_vars

\* C28: mergeCartItems(guestItems, userItems) returns a cart with at most one
\* line per (productId, variantId) whenever userItems has at most one line
\* per key, even if guestItems holds several lines of the same key; and the
\* lines of userItems keep their relative order at the front of the result.
C28_MergeOneLinePerKey ==
  (mPc = "merged" /\ \A k \in Keys : LinesOf(mUser, k) <= 1) =>
    /\ \A k \in Keys : LinesOf(mResult, k) <= 1
    /\ Len(mResult) >= Len(mUser)
    /\ \A i \in 1..Len(mUser) : KeyOf(mResult[i]) = KeyOf(mUser[i])

\* a guest cart with two lines of A has been merged into a user cart without A
C28_Witness ==
  /\ mPc = "merged"
  /\ mGuest = <<CartItem(KA, 1), CartItem(KA, 2)>> /\ mUser = <<CartItem(KB, 1)>>
  /\ mResult = <<CartItem(KB, 1), CartItem(KA, 3)>>

\* a call of nextSlide, prevSlide or goToSlide
NavCall == navCalls' = navCalls + 1

\* C29: in HeroCarousel, while a slide transition is in progress (the
\* transition lock is held) nextSlide, prevSlide and goToSlide change
\* nothing, so currentSlide is set at most once per lock period and stays
\* within 0..banners.length-1; the lock is held exactly while its 700 ms
\* timer is pending and is released when the timer fires, so navigation is
\* never blocked permanently.
C29_TransitionLock ==
  /\ [][(NavCall /\ isTransitioningRef)
        => UNCHANGED <<currentSlide, isTransitioning, isTransitioningRef, releaseTimers>>]_vars
  /\ [](slideChanges <= 1)
  /\ [](bannersLength > 0 => currentSlide \in 0..(bannersLength - 1))
  /\ [](releaseTimers = (IF isTransitioningRef THEN 1 ELSE 0))
  /\ [][ReleaseTimer => ~isTransitioningRef']_vars
  /\ (isTransitioningRef ~> ~isTransitioningRef)

\* with three banners, a call was made while the lock was held and changed
\* nothing; the timer has fired since and the next call has moved the slide
C29_Witness ==
  /\ bannersLength = 3 /\ navCalls = 3 /\ blockedCalls = 1
  /\ currentSlide = 2 /\ isTransitioningRef /\ releaseTimers = 1

\* the gallery was opened with no filter; the user has checked material=x and
\* then material=y, and no router.replace is pending any more
C30_Scenario ==
  /\ clicks = <<[key |-> "material", value |-> "x", checked |-> TRUE],
                [key |-> "material", value |-> "y", checked |-> TRUE]>>
  /\ pendingNavs = <<>>

\* C30: in the product filters, if the user checks two different filter
\* values before the URL has been updated by the first router.replace, both
\* values end up in the URL query: the second updateFilters call does not
\* drop the first change by building its parameters from the not-yet-updated
\* searchParams.
C30_BothFiltersInUrl ==
  C30_Scenario =>
    /\ indexOf(searchParams["material"], "x") > 0
    /\ indexOf(searchParams["material"], "y") > 0

====
